---- MODULE Spec2Model ----
(***************************************************************************)
(* Model of the LCOV pull-request report action (src/index.js).            *)
(*                                                                         *)
(* Objects live in a heap (a sequence of objects, an object's reference is *)
(* its index, 0 is `undefined`), so that "the same object" and "an equal   *)
(* object" are different things.  A coverage percentage is kept as the     *)
(* exact fraction num/den: the counters of the model are far below 2^53,   *)
(* where the double arithmetic of the program is exact enough that every   *)
(* comparison with a whole-number minimum agrees with the exact one.       *)
(* Text is a sequence of lines, a line is a record of its fields.          *)
(*                                                                         *)
(* Three specifications share the actions: Spec is a run up to its         *)
(* composed report on any lcov file, SpecRun a whole run with every stage  *)
(* failing or not, SpecPR runs one after the other on one pull request.    *)
(***************************************************************************)
EXTENDS Integers, Sequences, FiniteSets, TLC

VARIABLES
    lcovContent,    \* the records lcov-parse yields for the lcov file
    prFiles,        \* file names the compare API lists for the pull request
    eventName,      \* github.context.eventName
    commentTitle,   \* input comment-title
    allFilesMinimumCoverage,      \* input, parseFloat(..) || 0
    changedFilesMinimumCoverage,  \* input, parseFloat(..) || 0
    artifactName,   \* input artifact-name
    pc,             \* position of run()
    heap,           \* objects of the process
    data,           \* run: data (references)
    parsed,         \* the value of every input record when parseLcov resolved
    changedFiles,   \* run: changedFiles
    allFilesLcov,   \* run: allFilesLcov (reference)
    changedFilesLcov,   \* run: changedFilesLcov (reference)
    allFilesPassed,     \* run: allFilesPassed
    changedFilesPassed, \* run: changedFilesPassed
    allIndividualFilesPassed,   \* run: allIndividualFilesPassed
    bothPassed,     \* run: bothPassed
    comment,        \* run: comment (the composed document)
    existingComment,    \* postComment: existingComment (comment id, 0 undefined)
    failed,         \* the messages core.setFailed was called with
    raised,         \* the errors the stages of this run raised
    uncaught,       \* errors that reached no handler
    upload,         \* the promise uploadArtifact returned
    comments,       \* the comments of the pull request, oldest first
    runs            \* runs started on this pull request

vars == <<lcovContent, prFiles, eventName, commentTitle, allFilesMinimumCoverage,
          changedFilesMinimumCoverage, artifactName, pc, heap, data, parsed,
          changedFiles, allFilesLcov, changedFilesLcov, allFilesPassed,
          changedFilesPassed, allIndividualFilesPassed, bothPassed, comment,
          existingComment, failed, raised, uncaught, upload, comments, runs>>

verdicts == <<allFilesPassed, changedFilesPassed, allIndividualFilesPassed>>

envVars == <<lcovContent, prFiles, eventName, commentTitle, allFilesMinimumCoverage,
             changedFilesMinimumCoverage, artifactName>>

-----------------------------------------------------------------------------
(* Bounds and input universes                                              *)

MaxRecords == 2         \* records in an lcov file
MaxOtherComments == 100 \* comments other users leave on the pull request
MaxRuns == 2            \* runs on one pull request
PerPage == 100          \* getComments: per_page

Undefined == 0
UndefinedValue == [undefined |-> TRUE]

Pair(h, f) == [found |-> f, hit |-> h]

\* (lines, functions, branches) of the records an lcov file may hold
Counters ==
    { [lines |-> Pair(0, 0),        functions |-> Pair(0, 0), branches |-> Pair(0, 0)],
      [lines |-> Pair(3, 4),        functions |-> Pair(1, 2), branches |-> Pair(1, 3)],
      [lines |-> Pair(4, 4),        functions |-> Pair(2, 2), branches |-> Pair(2, 2)],
      [lines |-> Pair(7496, 10000), functions |-> Pair(9, 10), branches |-> Pair(0, 0)] }

\* a path is the sequence of its segments; these are relative to the working directory
SourceFiles == {<<"src", "a.js">>, <<"lib", "b.js">>}
OtherFiles == {<<"README.md">>}
WorkingDirectory == <<"w">>
Minimums == {0, 75}
Titles == {"", "unit"}

Record(f, c) ==
    [file |-> f, lines |-> c.lines, functions |-> c.functions, branches |-> c.branches]

Records == { Record(f, c) : f \in SourceFiles, c \in Counters }

\* lcov-parse reports an error, and no records, for a file that holds none
SeqsUpTo(S, n) == UNION { [1..k -> S] : k \in 1..n }

-----------------------------------------------------------------------------
(* Heap                                                                    *)

Deref(h, ref) == IF ref = Undefined THEN UndefinedValue ELSE h[ref]

\* Array.prototype.filter with (item) => files.has(item.file)
FilterByFile(h, d, files) == SelectSeq(d, LAMBDA ref : h[ref].file \in files)

\* the objects a sequence of references names
Values(h, d) == [i \in 1..Len(d) |-> h[d[i]]]

\* path.resolve(workingDirectory, p) for a relative p, and path.basename
Resolve(wd, p) == wd \o p
Basename(p) == p[Len(p)]

\* the optional parameter `files` of sumLcov and renderLcovFiles
NoFiles == [given |-> FALSE, has |-> {}]
TheFiles(S) == [given |-> TRUE, has |-> S]

-----------------------------------------------------------------------------
(* Aggregator                                                              *)

Add(a, b) == [found |-> a.found + b.found, hit |-> a.hit + b.hit]

\* data.reduce((total, file) => {...}) without an initial value: total starts as
\* the first element itself; every step allocates newTotal, a deep copy of total
\* (JSON.parse(JSON.stringify(total))), and adds the counters of file to it.
RECURSIVE Reduce(_, _, _, _)
Reduce(h, d, i, total) ==
    IF i > Len(d) THEN [ref |-> total, heap |-> h]
    ELSE LET file == h[d[i]]
             copy == h[total]
             newTotal == [copy EXCEPT !.lines = Add(copy.lines, file.lines),
                                      !.functions = Add(copy.functions, file.functions),
                                      !.branches = Add(copy.branches, file.branches)]
         IN Reduce(Append(h, newTotal), d, i + 1, Len(h) + 1)

\* Reduce with lines.found assigned instead of added
RECURSIVE ReduceAssign(_, _, _, _)
ReduceAssign(h, d, i, total) ==
    IF i > Len(d) THEN [ref |-> total, heap |-> h]
    ELSE LET file == h[d[i]]
             copy == h[total]
             newTotal == [copy EXCEPT !.lines = [found |-> file.lines.found,
                                                 hit |-> copy.lines.hit + file.lines.hit],
                                      !.functions = Add(copy.functions, file.functions),
                                      !.branches = Add(copy.branches, file.branches)]
         IN ReduceAssign(Append(h, newTotal), d, i + 1, Len(h) + 1)

\* sumLcov with that reduction
sumLcovAssign(h, d, files) ==
    LET filtered == IF files.given THEN FilterByFile(h, d, files.has) ELSE d
    IN IF Len(filtered) = 0 THEN [ref |-> Undefined, heap |-> h]
       ELSE ReduceAssign(h, filtered, 2, filtered[1])

\* sumLcov(data, files): the reference it returns and the heap it leaves
sumLcov(h, d, files) ==
    LET filtered == IF files.given THEN FilterByFile(h, d, files.has) ELSE d
    IN IF Len(filtered) = 0 THEN [ref |-> Undefined, heap |-> h]
       ELSE Reduce(h, filtered, 2, filtered[1])

-----------------------------------------------------------------------------
(* ThresholdEvaluator                                                      *)

\* a percentage as the exact fraction num/den, den > 0
Fraction(n, d) == [num |-> n, den |-> d]
Zero == Fraction(0, 1)
\* coverage >= minimumCoverage
AtLeast(coverage, minimumCoverage) == coverage.num >= minimumCoverage * coverage.den

\* calculateLineCoverage taking a file with no line found as fully covered
calculateLineCoverageFull(lines) ==
    IF lines.found = 0 THEN Fraction(100, 1) ELSE Fraction(lines.hit * 100, lines.found)

calculateLineCoverage(lines) ==
    IF lines.found = 0 THEN Zero ELSE Fraction(lines.hit * 100, lines.found)

\* isPassed failing every aggregate that is undefined
isPassedDefined(d, minimumCoverage) ==
    /\ d # UndefinedValue
    /\ AtLeast(IF d.lines.found = 0 THEN Zero
               ELSE Fraction(d.lines.hit * 100, d.lines.found), minimumCoverage)

isPassed(d, minimumCoverage) ==
    LET coverage == IF d = UndefinedValue \/ d.lines.found = 0 THEN Zero
                    ELSE Fraction(d.lines.hit * 100, d.lines.found)
    IN AtLeast(coverage, minimumCoverage)

\* checkAllIndividualFilesPassed with files.some in place of files.every
checkSomeIndividualFilePassed(files, minimumCoverage) ==
    IF Len(files) = 0 \/ minimumCoverage = 0 THEN TRUE
    ELSE \E i \in 1..Len(files) :
            AtLeast(calculateLineCoverage(files[i].lines), minimumCoverage)

\* checkAllIndividualFilesPassed looking at the first file only
checkFirstIndividualFilePassed(files, minimumCoverage) ==
    IF Len(files) = 0 \/ minimumCoverage = 0 THEN TRUE
    ELSE AtLeast(calculateLineCoverage(files[1].lines), minimumCoverage)

\* files.every(file => calculateLineCoverage(file.lines) >= minimumCoverage)
checkAllIndividualFilesPassed(files, minimumCoverage) ==
    IF Len(files) = 0 \/ minimumCoverage = 0 THEN TRUE
    ELSE \A i \in 1..Len(files) :
            AtLeast(calculateLineCoverage(files[i].lines), minimumCoverage)

-----------------------------------------------------------------------------
(* ReportRenderer                                                          *)

PassGlyph == "check-mark"
FailGlyph == "cross-mark"
NoGlyph == ""

\* Number.prototype.toFixed(1): the nearest tenth, the larger one of two equally
\* near, as a number of tenths
toFixed1(x) == (20 * x.num + x.den) \div (2 * x.den)

NACell == [na |-> TRUE, hit |-> 0, found |-> 0, tenths |-> 0]

renderLcovPercentage(lcov) ==
    IF lcov.found = 0 THEN NACell
    ELSE [na |-> FALSE, hit |-> lcov.hit, found |-> lcov.found,
          tenths |-> toFixed1(Fraction(lcov.hit * 100, lcov.found))]

\* one line of text: what kind of line, its text, its cells, its glyph, its minimum
Line(kind, text, cells, glyph, minimum) ==
    [kind |-> kind, text |-> text, cells |-> cells, glyph |-> glyph, minimum |-> minimum]
BlankLine == Line("blank", "", <<>>, NoGlyph, 0)

renderPassed(passed) == IF passed THEN PassGlyph ELSE FailGlyph

renderCommentId(title) == << Line("[lcov-comment-id]: <> ()", title, <<>>, NoGlyph, 0) >>

renderCommentHeader(title, passed) ==
    << Line("## LCOV Report", IF title # "" THEN " - " \o title ELSE "", <<>>,
            renderPassed(passed), 0) >>

renderSectionHeader(title) == << Line("###", title, <<>>, NoGlyph, 0) >>

renderLcovOverall(d, minimumCoverage, passed) ==
    IF d = UndefinedValue THEN << Line("text", "N/A", <<>>, NoGlyph, 0) >>
    ELSE << Line("- Lines:", "", <<renderLcovPercentage(d.lines)>>, renderPassed(passed),
                 minimumCoverage),
            Line("- Functions:", "", <<renderLcovPercentage(d.functions)>>, NoGlyph, 0),
            Line("- Branches:", "", <<renderLcovPercentage(d.branches)>>, NoGlyph, 0),
            BlankLine >>

\* FileRow comparing the percentage as it is rendered, to one decimal place
FileRowRounded(item, minimumCoverage) ==
    LET lineCoverage == calculateLineCoverage(item.lines)
        passed == IF minimumCoverage # 0
                  THEN toFixed1(lineCoverage) >= 10 * minimumCoverage
                  ELSE TRUE
    IN Line("row", Basename(item.file),
            << renderLcovPercentage(item.lines), renderLcovPercentage(item.functions),
               renderLcovPercentage(item.branches) >>,
            renderPassed(passed), 0)

\* FileRow with > in place of >=
FileRowStrict(item, minimumCoverage) ==
    LET lineCoverage == calculateLineCoverage(item.lines)
        passed == IF minimumCoverage # 0
                  THEN lineCoverage.num > minimumCoverage * lineCoverage.den
                  ELSE TRUE
    IN Line("row", Basename(item.file),
            << renderLcovPercentage(item.lines), renderLcovPercentage(item.functions),
               renderLcovPercentage(item.branches) >>,
            renderPassed(passed), 0)

\* the row of the table for one record
FileRow(item, minimumCoverage) ==
    LET lineCoverage == calculateLineCoverage(item.lines)
        passed == IF minimumCoverage # 0 THEN AtLeast(lineCoverage, minimumCoverage)
                  ELSE TRUE
    IN Line("row", Basename(item.file),
            << renderLcovPercentage(item.lines), renderLcovPercentage(item.functions),
               renderLcovPercentage(item.branches) >>,
            renderPassed(passed), 0)

\* renderLcovFiles(data, files, minimumCoverage), data the records themselves
renderLcovFiles(d, files, minimumCoverage) ==
    LET filtered == IF files.given THEN SelectSeq(d, LAMBDA item : item.file \in files.has)
                    ELSE d
        heading == IF minimumCoverage # 0
                   THEN << Line("#### Files (Minimum Coverage)", "", <<>>, NoGlyph,
                                minimumCoverage), BlankLine >>
                   ELSE <<>>
        table == << Line("table-header", "File,Lines,Functions,Branches,Status", <<>>,
                         NoGlyph, 0) >>
                 \o [i \in 1..Len(filtered) |-> FileRow(filtered[i], minimumCoverage)]
    IN IF Len(filtered) = 0 THEN <<>> ELSE heading \o table \o << BlankLine >>

-----------------------------------------------------------------------------
(* The comments of the pull request                                        *)

\* String.prototype.startsWith, on sequences of lines
StartsWith(body, prefix) ==
    Len(body) >= Len(prefix) /\ SubSeq(body, 1, Len(prefix)) = prefix

Min(a, b) == IF a <= b THEN a ELSE b

\* octokit.rest.issues.listComments with per_page and no page: the first page
listComments(all) == SubSeq(all, 1, Min(Len(all), PerPage))

\* comments.find(comment => comment.body.startsWith(commentId)): its id, or undefined
Find(page, commentId) ==
    LET hits == { i \in 1..Len(page) : StartsWith(page[i].body, commentId) }
    IN IF hits = {} THEN Undefined
       ELSE page[CHOOSE i \in hits : \A j \in hits : i <= j].id

\* a comment somebody else wrote
OtherBody == << Line("text", "LGTM", <<>>, NoGlyph, 0) >>

-----------------------------------------------------------------------------
(* run()                                                                   *)

RunStart ==
    /\ pc = "parseLcov"
    /\ heap = <<>>
    /\ data = <<>>
    /\ parsed = <<>>
    /\ changedFiles = {}
    /\ allFilesLcov = Undefined
    /\ changedFilesLcov = Undefined
    /\ allFilesPassed = FALSE
    /\ changedFilesPassed = FALSE
    /\ allIndividualFilesPassed = FALSE
    /\ bothPassed = FALSE
    /\ comment = <<>>
    /\ existingComment = Undefined
    /\ failed = <<>>
    /\ raised = {}
    /\ uncaught = {}
    /\ upload = "none"

\* catch (error) { core.setFailed(error.message) }
Catch(error) ==
    /\ failed' = Append(failed, error)
    /\ raised' = raised \cup {error}
    /\ pc' = "done"

\* line 22: lcovParse calls back with the records; each gets its path resolved
ParseLcovResolve ==
    /\ pc = "parseLcov"
    /\ heap' = [i \in 1..Len(lcovContent) |->
                  [lcovContent[i] EXCEPT !.file = Resolve(WorkingDirectory, @)]]
    /\ data' = [i \in 1..Len(lcovContent) |-> i]
    /\ parsed' = heap'
    /\ pc' = "getChangedFiles"
    /\ UNCHANGED <<envVars, changedFiles, allFilesLcov, changedFilesLcov, verdicts, bothPassed,
                   comment, existingComment, failed, raised, uncaught, upload, comments,
                   runs>>

\* line 128: lcovParse calls back with an error, and the callback throws. It runs
\* from the file system's completion, outside the promise's executor: nothing
\* catches the exception and the promise run awaits never settles.
ParseLcovThrow ==
    /\ pc = "parseLcov"
    /\ raised' = raised \cup {"parseLcov"}
    /\ uncaught' = uncaught \cup {"parseLcov"}
    /\ pc' = "crashed"
    /\ UNCHANGED <<envVars, heap, data, parsed, changedFiles, allFilesLcov,
                   changedFilesLcov, verdicts, bothPassed, comment, existingComment, failed,
                   upload, comments, runs>>

\* line 23, getChangedFiles
GetChangedFiles ==
    /\ pc = "getChangedFiles"
    /\ \/ /\ eventName # "pull_request"
          /\ changedFiles' = {}
          /\ pc' = "report"
          /\ UNCHANGED <<failed, raised>>
       \/ /\ eventName = "pull_request"
          /\ changedFiles' = { Resolve(WorkingDirectory, f) : f \in prFiles }
          /\ pc' = "report"
          /\ UNCHANGED <<failed, raised>>
       \/ /\ eventName = "pull_request"
          /\ Catch("compareCommitsWithBasehead")
          /\ UNCHANGED changedFiles
    /\ UNCHANGED <<envVars, heap, data, parsed, allFilesLcov, changedFilesLcov,
                   verdicts, bothPassed, comment, existingComment, uncaught, upload, comments, runs>>

\* lines 25-48: aggregate, evaluate, mark the run, compose the comment
Report ==
    /\ pc = "report"
    /\ LET all == sumLcov(heap, data, NoFiles)
           allPassed == isPassed(Deref(all.heap, all.ref), allFilesMinimumCoverage)
           changed == sumLcov(all.heap, data, TheFiles(changedFiles))
           hasChangedFiles == changed.ref # Undefined
           changedPassed ==
               isPassed(Deref(changed.heap, changed.ref), changedFilesMinimumCoverage)
           changedFilesData == FilterByFile(changed.heap, data, changedFiles)
           individualPassed ==
               checkAllIndividualFilesPassed(Values(changed.heap, changedFilesData),
                                             changedFilesMinimumCoverage)
           both == allPassed
                   /\ (~hasChangedFiles \/ (changedPassed /\ individualPassed))
       IN /\ heap' = changed.heap
          /\ allFilesLcov' = all.ref
          /\ changedFilesLcov' = changed.ref
          /\ allFilesPassed' = allPassed
          /\ changedFilesPassed' = changedPassed
          /\ allIndividualFilesPassed' = individualPassed
          /\ bothPassed' = both
          /\ failed' = IF ~both THEN Append(failed, "Coverage is below the minimum")
                       ELSE failed
          /\ comment' = renderCommentId(commentTitle)
                        \o renderCommentHeader(commentTitle, both)
                        \o renderSectionHeader("All Files")
                        \o renderLcovOverall(Deref(all.heap, all.ref),
                                             allFilesMinimumCoverage, allPassed)
                        \o renderSectionHeader("Changed Files")
                        \o renderLcovOverall(Deref(changed.heap, changed.ref),
                                             changedFilesMinimumCoverage, changedPassed)
                        \o renderLcovFiles(Values(changed.heap, data),
                                           TheFiles(changedFiles),
                                           changedFilesMinimumCoverage)
    /\ pc' = "postComment"
    /\ UNCHANGED <<envVars, data, parsed, changedFiles, existingComment, raised,
                   uncaught, upload, comments, runs>>

\* lines 50-54 and 82-83: getComments, then find the comment of an earlier run
GetComments ==
    /\ pc = "postComment"
    /\ \/ /\ eventName # "pull_request"
          /\ pc' = "artifact"
          /\ UNCHANGED <<existingComment, failed, raised>>
       \/ /\ eventName = "pull_request"
          /\ existingComment' =
                 Find(listComments(comments), renderCommentId(commentTitle))
          /\ pc' = "writeComment"
          /\ UNCHANGED <<failed, raised>>
       \/ /\ eventName = "pull_request"
          /\ Catch("listComments")
          /\ UNCHANGED existingComment
    /\ UNCHANGED <<envVars, heap, data, parsed, changedFiles, allFilesLcov,
                   changedFilesLcov, verdicts, bothPassed, comment, uncaught, upload, comments, runs>>

\* lines 84-86 and 105-112
CreateNewComment ==
    /\ pc = "writeComment"
    /\ existingComment = Undefined
    /\ \/ /\ comments' = Append(comments, [id |-> Len(comments) + 1, body |-> comment])
          /\ pc' = "artifact"
          /\ UNCHANGED <<failed, raised>>
       \/ /\ Catch("createComment")
          /\ UNCHANGED comments
    /\ UNCHANGED <<envVars, heap, data, parsed, changedFiles, allFilesLcov,
                   changedFilesLcov, verdicts, bothPassed, comment, existingComment, uncaught,
                   upload, runs>>

\* lines 87-89 and 114-121
UpdateComment ==
    /\ pc = "writeComment"
    /\ existingComment # Undefined
    /\ \/ /\ comments' = [i \in 1..Len(comments) |->
                            IF comments[i].id = existingComment
                            THEN [comments[i] EXCEPT !.body = comment]
                            ELSE comments[i]]
          /\ pc' = "artifact"
          /\ UNCHANGED <<failed, raised>>
       \/ /\ Catch("updateComment")
          /\ UNCHANGED comments
    /\ UNCHANGED <<envVars, heap, data, parsed, changedFiles, allFilesLcov,
                   changedFilesLcov, verdicts, bothPassed, comment, existingComment, uncaught,
                   upload, runs>>

\* lines 56-60: uploadArtifact is called and not awaited; run returns
Artifact ==
    /\ pc = "artifact"
    /\ upload' = IF artifactName # "" THEN "pending" ELSE upload
    /\ pc' = "done"
    /\ UNCHANGED <<envVars, heap, data, parsed, changedFiles, allFilesLcov,
                   changedFilesLcov, verdicts, bothPassed, comment, existingComment, failed, raised,
                   uncaught, comments, runs>>

\* lines 259-266: genhtml, the glob and the upload all succeed
UploadArtifactResolve ==
    /\ upload = "pending"
    /\ upload' = "fulfilled"
    /\ UNCHANGED <<envVars, pc, heap, data, parsed, changedFiles, allFilesLcov,
                   changedFilesLcov, verdicts, bothPassed, comment, existingComment, failed, raised,
                   uncaught, comments, runs>>

\* lines 259-266: one of them rejects; nothing awaits the promise or catches
UploadArtifactReject ==
    /\ upload = "pending"
    /\ upload' = "rejected"
    /\ raised' = raised \cup {"uploadArtifact"}
    /\ uncaught' = uncaught \cup {"uploadArtifact"}
    /\ UNCHANGED <<envVars, pc, heap, data, parsed, changedFiles, allFilesLcov,
                   changedFilesLcov, verdicts, bothPassed, comment, existingComment, failed,
                   comments, runs>>

-----------------------------------------------------------------------------------------------------------------------------------------------------
(* The report of a run: any lcov file, any set of changed files, any       *)
(* minimums, up to the composed comment (line 48).                         *)

Events == {"pull_request", "push"}
ArtifactNames == {"", "coverage"}

Init ==
    /\ lcovContent \in SeqsUpTo(Records, MaxRecords)
    /\ eventName \in Events
    /\ prFiles \in IF eventName = "pull_request"
                    THEN SUBSET (SourceFiles \cup OtherFiles) ELSE {{}}
    /\ commentTitle \in Titles
    /\ allFilesMinimumCoverage \in Minimums
    /\ changedFilesMinimumCoverage \in Minimums
    /\ artifactName = ""
    /\ comments = <<>>
    /\ runs = 1
    /\ RunStart

Next ==
    \/ ParseLcovResolve
    \/ ParseLcovThrow
    \/ GetChangedFiles
    \/ Report

Spec == Init /\ [][Next]_vars

-----------------------------------------------------------------------------
(* One whole run, every stage of which may fail: an lcov file of one       *)
(* record, a pull request with or without the comment of an earlier run.   *)

\* the comment an earlier run with this title and a passing verdict left
EarlierComment(title) ==
    [id |-> 1, body |-> renderCommentId(title) \o renderCommentHeader(title, TRUE)]

InitRun ==
    /\ lcovContent \in SeqsUpTo(Records, 1)
    /\ eventName \in Events
    /\ prFiles \in IF eventName = "pull_request" THEN SUBSET SourceFiles ELSE {{}}
    /\ commentTitle \in Titles
    /\ allFilesMinimumCoverage \in Minimums
    /\ changedFilesMinimumCoverage \in Minimums
    /\ artifactName \in ArtifactNames
    /\ comments \in IF eventName = "pull_request"
                     THEN {<<>>, <<EarlierComment(commentTitle)>>} ELSE {<<>>}
    /\ runs = 1
    /\ RunStart

NextRun ==
    \/ ParseLcovResolve
    \/ ParseLcovThrow
    \/ GetChangedFiles
    \/ Report
    \/ GetComments
    \/ CreateNewComment
    \/ UpdateComment
    \/ Artifact
    \/ UploadArtifactResolve
    \/ UploadArtifactReject

SpecRun == InitRun /\ [][NextRun]_vars

-----
(* Runs of the action, one after the other, on one pull request that other *)
(* users comment on.  Every run has the same inputs; artifact-name is      *)
(* empty, so no run starts an upload.                                      *)

\* somebody else comments on the pull request
OtherComment ==
    /\ Len(comments) < MaxOtherComments
    /\ comments' = Append(comments, [id |-> Len(comments) + 1, body |-> OtherBody])
    /\ UNCHANGED <<envVars, pc, heap, data, parsed, changedFiles, allFilesLcov,
                   changedFilesLcov, verdicts, bothPassed, comment, existingComment, failed, raised,
                   uncaught, upload, runs>>

\* the workflow runs again: a new process, the same pull request
Rerun ==
    /\ pc \in {"done", "crashed"}
    /\ runs < MaxRuns
    /\ runs' = runs + 1
    /\ pc' = "parseLcov"
    /\ heap' = <<>>
    /\ data' = <<>>
    /\ parsed' = <<>>
    /\ changedFiles' = {}
    /\ allFilesLcov' = Undefined
    /\ changedFilesLcov' = Undefined
    /\ allFilesPassed' = FALSE
    /\ changedFilesPassed' = FALSE
    /\ allIndividualFilesPassed' = FALSE
    /\ bothPassed' = FALSE
    /\ comment' = <<>>
    /\ existingComment' = Undefined
    /\ failed' = <<>>
    /\ raised' = {}
    /\ uncaught' = {}
    /\ upload' = "none"
    /\ UNCHANGED <<envVars, comments>>

InitPR ==
    /\ lcovContent \in { << Record(<<"src", "a.js">>, c) >> : c \in Counters }
    /\ eventName = "pull_request"
    /\ prFiles = SourceFiles
    /\ commentTitle \in Titles
    /\ allFilesMinimumCoverage = 0
    /\ changedFilesMinimumCoverage = 75
    /\ artifactName = ""
    /\ comments = <<>>
    /\ runs = 1
    /\ RunStart

NextPR ==
    \/ ParseLcovResolve
    \/ ParseLcovThrow
    \/ GetChangedFiles
    \/ Report
    \/ GetComments
    \/ CreateNewComment
    \/ UpdateComment
    \/ Artifact
    \/ OtherComment
    \/ Rerun

SpecPR == InitPR /\ [][NextPR]_vars

-----------------------------------------------------------------------------
(* What the properties are stated in: the records as they were parsed, and *)
(* sums and comparisons written out on them.                               *)

\* run has composed its report
Reported == comment # <<>>

Indices == 1..Len(parsed)
ChangedIndices == { i \in Indices : parsed[i].file \in changedFiles }

RECURSIVE SumOf(_, _, _)
SumOf(I, counter, field) ==
    IF I = {} THEN 0
    ELSE LET i == CHOOSE j \in I : TRUE
         IN parsed[i][counter][field] + SumOf(I \ {i}, counter, field)

Totals(I) ==
    [lines |-> [found |-> SumOf(I, "lines", "found"), hit |-> SumOf(I, "lines", "hit")],
     functions |-> [found |-> SumOf(I, "functions", "found"),
                    hit |-> SumOf(I, "functions", "hit")],
     branches |-> [found |-> SumOf(I, "branches", "found"),
                   hit |-> SumOf(I, "branches", "hit")]]

\* the rows of the file table and the records they are the rows of
Rows == SelectSeq(comment, LAMBDA line : line.kind = "row")
ChangedRecords == SelectSeq(parsed, LAMBDA record : record.file \in changedFiles)

\* hit*100/found, or 0 when found is 0, is at least minimum
CoverageAtLeast(hit, found, minimum) ==
    IF found = 0 THEN 0 >= minimum ELSE hit * 100 >= minimum * found

\* the same of the sum of the records I, whose coverage is 0 when there is none
AggregateAtLeast(I, minimum) ==
    IF I = {} THEN 0 >= minimum
    ELSE CoverageAtLeast(Totals(I).lines.hit, Totals(I).lines.found, minimum)

EveryFileAtLeast(I, minimum) ==
    \A i \in I : CoverageAtLeast(parsed[i].lines.hit, parsed[i].lines.found, minimum)

Range(f) == { f[i] : i \in DOMAIN f }
MarkedBelowMinimum == "Coverage is below the minimum" \in Range(failed)

-----------------------------------------------------------------------------
(* C1 *)

-----------------------------------------------------------------------------
(* C2 *)

\* C2 as stated: isPassed(aggregate, minimum) is true iff the aggregate is
\* data-present and its line coverage (0 when lines.found is 0) is at least the
\* minimum; a "no data" aggregate never passes.
C2_AsStated ==
    Reported =>
        /\ allFilesPassed <=>
              (Indices # {} /\ AggregateAtLeast(Indices, allFilesMinimumCoverage))
        /\ changedFilesPassed <=>
              (ChangedIndices # {}
               /\ AggregateAtLeast(ChangedIndices, changedFilesMinimumCoverage))

\* C2 amended: isPassed(aggregate, minimum) is true iff the line coverage, which is
\* 0 for a "no data" aggregate and when lines.found is 0, is at least the minimum;
\* a "no data" aggregate passes exactly the minimums that are not positive.
C2_IsPassed ==
    Reported =>
        /\ allFilesPassed <=> AggregateAtLeast(Indices, allFilesMinimumCoverage)
        /\ changedFilesPassed <=>
              AggregateAtLeast(ChangedIndices, changedFilesMinimumCoverage)
        /\ Indices = {} => (allFilesPassed <=> allFilesMinimumCoverage <= 0)
        /\ ChangedIndices = {} =>
              (changedFilesPassed <=> changedFilesMinimumCoverage <= 0)

\* a "no data" aggregate evaluated against the minimum 0 has passed
C2_Witness ==
    /\ Reported
    /\ changedFilesLcov = Undefined
    /\ changedFilesMinimumCoverage = 0
    /\ changedFilesPassed

-----------------------------------------------------------------------------
(* C7 *)

\* C7: checkAllIndividualFilesPassed is true whenever the collection of
\* changed-file records is empty or the minimum is 0, whatever the records'
\* coverage; otherwise it is true iff every record's line coverage (0 when
\* lines.found is 0) is at least the minimum.
C7_AllIndividual ==
    Reported =>
        IF ChangedIndices = {} \/ changedFilesMinimumCoverage = 0
        THEN allIndividualFilesPassed
        ELSE allIndividualFilesPassed <=>
                EveryFileAtLeast(ChangedIndices, changedFilesMinimumCoverage)

\* no minimum and a changed file with no line found: true
C7_Witness ==
    /\ Reported
    /\ changedFilesMinimumCoverage = 0
    /\ \E i \in ChangedIndices : parsed[i].lines.found = 0
    /\ allIndividualFilesPassed

-----------------------------------------------------------------------------
(* C4 *)

Orders(n) ==
    { p \in [1..n -> 1..n] : \A i, j \in 1..n : i # j => p[i] # p[j] }

\* the AggregateCoverage an object holds: its three counter pairs, or no data
Aggregate(v) ==
    IF v = UndefinedValue THEN UndefinedValue
    ELSE [lines |-> v.lines, functions |-> v.functions, branches |-> v.branches]

SumOfRecords(I) == IF I = {} THEN UndefinedValue ELSE Totals(I)

\* C4: for every permutation of the records, without a filter and with the
\* changed files as the filter, sumLcov returns the same AggregateCoverage, the one
\* run computed: no data when no record matches, and otherwise the sums of found
\* and of hit for lines, functions and branches over the matching records.
C4_SumLcov ==
    Reported =>
        /\ Aggregate(Deref(heap, allFilesLcov)) = SumOfRecords(Indices)
        /\ Aggregate(Deref(heap, changedFilesLcov)) = SumOfRecords(ChangedIndices)
        /\ \A p \in Orders(Len(data)) :
              LET d == [i \in 1..Len(data) |-> data[p[i]]]
                  all == sumLcov(parsed, d, NoFiles)
                  changed == sumLcov(parsed, d, TheFiles(changedFiles))
              IN /\ Aggregate(Deref(all.heap, all.ref)) = SumOfRecords(Indices)
                 /\ Aggregate(Deref(changed.heap, changed.ref))
                       = SumOfRecords(ChangedIndices)

\* two changed records with different counters have been summed
C4_Witness ==
    /\ Reported
    /\ Cardinality(ChangedIndices) >= 2
    /\ \E i, j \in ChangedIndices : parsed[i].lines # parsed[j].lines
    /\ changedFilesLcov # Undefined

-----------------------------------------------------------------------------
(* C5 *)

\* C5: every pass/fail decision on an aggregate or on a file of the table compares
\* the exact line coverage with the minimum: when found > 0, passed iff
\* hit*100 >= minimum*found, whatever the percentage rounds to.
C5_Exact ==
    Reported =>
        /\ Totals(Indices).lines.found > 0 =>
              (allFilesPassed <=>
                 Totals(Indices).lines.hit * 100
                   >= allFilesMinimumCoverage * Totals(Indices).lines.found)
        /\ (ChangedIndices # {} /\ Totals(ChangedIndices).lines.found > 0) =>
              (changedFilesPassed <=>
                 Totals(ChangedIndices).lines.hit * 100
                   >= changedFilesMinimumCoverage * Totals(ChangedIndices).lines.found)
        /\ Len(Rows) = Len(ChangedRecords)
        /\ \A k \in 1..Len(Rows) :
              LET lines == ChangedRecords[k].lines
              IN lines.found > 0 =>
                   /\ Rows[k].glyph \in {PassGlyph, FailGlyph}
                   /\ Rows[k].glyph = PassGlyph <=>
                         lines.hit * 100 >= changedFilesMinimumCoverage * lines.found

\* one row fails although its percentage is rendered as the minimum, and another
\* row, exactly at the minimum, passes
C5_Witness ==
    /\ Reported
    /\ changedFilesMinimumCoverage > 0
    /\ \E k \in 1..Len(Rows) :
          /\ ~Rows[k].cells[1].na
          /\ Rows[k].cells[1].tenths = 10 * changedFilesMinimumCoverage
          /\ Rows[k].glyph = FailGlyph
    /\ \E k \in 1..Len(Rows) :
          /\ ChangedRecords[k].lines.found > 0
          /\ ChangedRecords[k].lines.hit * 100
                = changedFilesMinimumCoverage * ChangedRecords[k].lines.found
          /\ Rows[k].glyph = PassGlyph

-----------------------------------------------------------------------------
(* C6 *)

\* the collections of records that contain record i
CollectionsWith(i) ==
    { SelectSeq(parsed, LAMBDA record : \E j \in I : record = parsed[j]) :
        I \in { J \in SUBSET Indices : i \in J } }

\* C6: with a minimum greater than 0, a record whose lines.found is 0 has line
\* coverage exactly 0, its row of the file table has the Lines cell N/A and the
\* fail glyph, and checkAllIndividualFilesPassed is false of every collection
\* that contains it.
C6_NoLines ==
    (Reported /\ changedFilesMinimumCoverage > 0) =>
        \A i \in Indices :
            parsed[i].lines.found = 0 =>
                /\ calculateLineCoverage(parsed[i].lines).num = 0
                /\ \A k \in 1..Len(Rows) :
                      ChangedRecords[k] = parsed[i] =>
                          /\ Rows[k].cells[1] = NACell
                          /\ Rows[k].glyph = FailGlyph
                /\ i \in ChangedIndices =>
                      (~allIndividualFilesPassed /\ Len(Rows) = Len(ChangedRecords))
                /\ \A c \in CollectionsWith(i) :
                      ~checkAllIndividualFilesPassed(c, changedFilesMinimumCoverage)

\* a changed file with no line found, next to one that is fully covered
C6_Witness ==
    /\ Reported
    /\ changedFilesMinimumCoverage > 0
    /\ \E i, j \in ChangedIndices :
          /\ parsed[i].lines.found = 0
          /\ parsed[j].lines.found > 0
          /\ parsed[j].lines.hit = parsed[j].lines.found
    /\ \E k \in 1..Len(Rows) : Rows[k].cells[1] = NACell

-----------------------------------------------------------------------------
(* C8 *)

\* C8 as stated: no input record is changed by a run, and every aggregate sumLcov
\* returns is a new object, none of the input records.
C8_AsStated ==
    Reported =>
        /\ \A i \in Indices : heap[data[i]] = parsed[i]
        /\ allFilesLcov \notin Range(data)
        /\ changedFilesLcov \notin Range(data)

-----------------------------------------------------------------------------
(* C9 *)

\* C9: in the report run composes, the header shows the pass glyph iff the verdict
\* is passed, and a fail glyph anywhere in the document means that the header
\* shows the fail glyph and that the run is marked failed.
C9_Glyphs ==
    Reported =>
        /\ comment[2].kind = "## LCOV Report"
        /\ comment[2].glyph = renderPassed(bothPassed)
        /\ (\E i \in DOMAIN comment : comment[i].glyph = FailGlyph) =>
              (comment[2].glyph = FailGlyph /\ MarkedBelowMinimum)

\* a passed header above two Lines lines and a table of two rows, with minimums
C9_Witness ==
    /\ Reported
    /\ comment[2].glyph = PassGlyph
    /\ allFilesMinimumCoverage > 0
    /\ changedFilesMinimumCoverage > 0
    /\ Len(Rows) >= 2
    /\ Cardinality({ i \in DOMAIN comment : comment[i].kind = "- Lines:" }) = 2

-----------------------------------------------------------------------------
(* C10 *)

\* run has returned, or the process has died of an exception nothing caught
Finished == pc \in {"done", "crashed"}

\* C10 as stated: every failure of a stage reaches the catch handler of run, which
\* marks the run failed with the error's message; no failure is left unhandled;
\* and run does not complete before every stage it started has finished.
C10_AsStated ==
    /\ uncaught = {}
    /\ Finished => \A error \in raised : error \in Range(failed)
    /\ pc = "done" => upload # "pending"

-----------------------------------------------------------------------------
(* C3 *)

\* the comments that begin with the identity marker of the title
Marked == { i \in 1..Len(comments) :
              StartsWith(comments[i].body, renderCommentId(commentTitle)) }

\* C3 as stated: after any sequence of runs with one title on one pull request,
\* whatever other comments it holds, at most one comment begins with the identity
\* marker of the title.
C3_AsStated == Cardinality(Marked) <= 1

====
